---- MODULE Spec2Model ----
(***************************************************************************)
(* Model of the volleyball roster bot (src/bot/): the reconciler           *)
(* update_roster_message, the scheduler loop roster_scheduler, the         *)
(* restart recovery bootstrap_roster_message, the on_ready handler and the *)
(* administrative slash commands, running as asyncio tasks on one event    *)
(* loop.  A task runs atomically from one await to the next; every action  *)
(* below is one such stretch of code.                                      *)
(*                                                                         *)
(* A text is a sequence of lines, a line a sequence of string pieces.      *)
(* The local state files (message_id.txt, last_roster.txt,                 *)
(* cancel_state.json) are taken to be written reliably.                    *)
(*                                                                         *)
(* Specifications: Spec (any number of on_ready events, so several         *)
(* scheduler loops), CoreSpec (one scheduler loop), AdminSpec (one loop    *)
(* and the slash commands), LiveSpec (one loop, with fairness),            *)
(* BackoffSpec (one loop, longer runs of 429), WeekSpec (one loop, the     *)
(* target week rolling, /cancel and /uncancel), HangSpec (one loop whose   *)
(* calls may never answer), CmdSpec (the slash commands alone, no loop),   *)
(* and for the pure functions CadenceSpec                                  *)
(* (get_roster_sleep_seconds) and PartitionSpec                            *)
(* (get_confirmed_and_waitlist).                                           *)
(***************************************************************************)
EXTENDS Integers, Sequences, FiniteSets, TLC

\* ------------------------------------------------------------------ bounds
MaxSched == 2
MaxAdmin == 1
MaxMsgs == 2
MaxLen == 1
MaxWeek == 2
Max429 == 1
MaxStreak == 3
MaxRows == 23

\* ------------------------------------------------------- program constants
Capacity == 21
HistoryLimit == 5

Names == {"ann"}
Reasons == {"rain"}

Sched == 1..MaxSched
Admin == (MaxSched + 1)..(MaxSched + MaxAdmin)
Procs == Sched \cup Admin

RECURSIVE SeqsUpTo(_, _)
SeqsUpTo(S, n) ==
  IF n = 0 THEN {<<>>}
  ELSE LET shorter == SeqsUpTo(S, n - 1)
       IN  shorter \cup {Append(s, x) : s \in {t \in shorter : Len(t) = n - 1}, x \in S}

Lists == SeqsUpTo(Names, MaxLen)

\* ------------------------------------------------------------- rendering
Digit == <<"0", "1", "2", "3", "4", "5", "6", "7", "8", "9">>

RECURSIVE Dec(_)
Dec(n) == IF n < 10 THEN <<Digit[n + 1]>> ELSE Dec(n \div 10) \o <<Digit[(n % 10) + 1]>>

RosterPrefix == "R **THM Volleyball Roster - Sunday,"
BannerPrefix == "X Sunday volleyball is CANCELLED -"
marker_prefixes == {RosterPrefix, BannerPrefix}

\* sunday.strftime('%B %d') and sunday.strftime('%B %d, %Y') of target week w
DateShort(w) == <<"Sunday#">> \o Dec(w)
DateLong(w) == DateShort(w) \o <<", Y">>

Min(a, b) == IF a < b THEN a ELSE b

\* Mutant: the waitlist is cut one row early.
get_confirmed_and_waitlist_overlap(participants) ==
  [confirmed |-> SubSeq(participants, 1, Min(Capacity, Len(participants))),
   waitlist  |-> SubSeq(participants, Capacity, Len(participants))]

\* sheets.py lines 42-44: participants[:21], participants[21:]
get_confirmed_and_waitlist(participants) ==
  [confirmed |-> SubSeq(participants, 1, Min(Capacity, Len(participants))),
   waitlist  |-> SubSeq(participants, Capacity + 1, Len(participants))]

ConfirmedLines(confirmed) ==
  IF confirmed # <<>>
  THEN [i \in 1..Len(confirmed) |-> Dec(i) \o <<". ", confirmed[i]>>]
  ELSE << <<"None">> >>

WaitlistLines(waitlist) ==
  IF waitlist # <<>>
  THEN [i \in 1..Len(waitlist) |-> <<"- ", waitlist[i]>>]
  ELSE << <<"None">> >>

Banner(cancelled, reason, sunday) ==
  IF cancelled
  THEN << <<BannerPrefix, " ">> \o DateLong(sunday), <<"Reason: ", reason>>, <<"">> >>
  ELSE <<>>

Render(participants, cancelled, reason, sunday) ==
  LET r == get_confirmed_and_waitlist(participants)
  IN  Banner(cancelled, reason, sunday)
        \o << <<RosterPrefix, " ">> \o DateShort(sunday) \o <<"**">>, <<"">>,
              <<"Confirmed to Play:">> >>
        \o ConfirmedLines(r.confirmed)
        \o << <<"">>, <<"Waitlist:">> >>
        \o WaitlistLines(r.waitlist)
        \o << <<"">>, <<"KMCD Gym | 2-5 PM">>, <<"Enter through the double doors">>,
              <<"Please arrive on time">> >>

NoText == <<>>

StartsWith(content, prefix) == Len(content) > 0 /\ content[1][1] = prefix

\* What somebody else may post in the roster channel: a copy of a roster header.
ForeignText == << <<RosterPrefix, " ", "copy">> >>

\* ------------------------------------------------------------------ cadence
RECURSIVE Pow2(_)
Pow2(k) == IF k = 0 THEN 1 ELSE 2 * Pow2(k - 1)

\* random.randint(a, b) gives any integer of a..b; the model draws the two
\* ends, where every band reaches its least and its greatest value.
randint(a, b) == {a, b}

\* datetime.now(EASTERN): weekday() is 0 on Monday, 6 on Sunday.
Clock == [weekday : 0..6, hour : 0..23]

\* The moments around the ends of the windows.
Moments == {now \in Clock : now.hour \in {0, 11, 12, 13, 14, 23}}

NoMoment == [weekday |-> 0, hour |-> 0]

\* Mutant: Friday counts from 13:00 on.
IsActiveLate(now) ==
  \/ now.weekday = 4 /\ now.hour > 12
  \/ now.weekday = 5
  \/ now.weekday = 6 /\ now.hour < 14

\* utils.py lines 120-124
IsActive(now) ==
  \/ now.weekday = 4 /\ now.hour >= 12
  \/ now.weekday = 5
  \/ now.weekday = 6 /\ now.hour < 14

\* line 108: 60 * (2 ** (consecutive_429 - 1))
BaseMinutes(consecutive_429) == (60 * Pow2(consecutive_429)) \div 2

\* Mutant: the upper end of the band is twice the base.
MaxSleepDouble(base_minutes) == base_minutes * 2

\* line 110: int(base_minutes * 1.5)
MaxSleep(base_minutes) == (base_minutes * 3) \div 2

Statuses == {"edited", "nochange", "rate_limited", "error"}

\* Mutant: status error is not told apart from the normal scheduling.
SleepBranchNoError(status) ==
  IF status = "rate_limited" THEN "backoff" ELSE "normal"

\* lines 105, 114: the part of the function that decides the delay
SleepBranch(status) ==
  CASE status = "rate_limited" -> "backoff"
    [] status = "error" -> "error"
    [] OTHER -> "normal"

\* utils.py lines 92-134, in seconds: the values the call may return.
get_roster_sleep_seconds(status, consecutive_429, now) ==
  IF SleepBranch(status) = "backoff"
  THEN LET base_minutes == BaseMinutes(consecutive_429)
           min_sleep == base_minutes
           max_sleep == MaxSleep(base_minutes)
       IN  randint(min_sleep * 60, max_sleep * 60)
  ELSE IF SleepBranch(status) = "error"
  THEN randint(45 * 60, 60 * 60)
  ELSE LET active == IsActive(now)
           base_sleep == IF active THEN randint(19 * 60, 21 * 60)
                         ELSE randint(115 * 60, 125 * 60)
       IN  IF status = "nochange" /\ active
           THEN {b + e : b \in base_sleep, e \in randint(10 * 60, 20 * 60)}
           ELSE base_sleep


\* ------------------------------------------------------------------ state
VARIABLES
  week,        \* get_next_sunday(): the target week
  sheet,       \* the sign-up rows of the target week, in sheet order
  cancelFile,  \* cancel_state.json: one week's record, or no data (wk = 0)
  msgId,       \* message_id.txt: the persisted identifier, 0 when load gives None
  cache,       \* last_roster.txt: the persisted last-rendered text
  chan,        \* the roster channel: message id i is chan[i]
  pc,          \* where each scheduler / command task stands
  cmd,         \* the arguments a command task gives update_roster_message,
               \* and the reply its caller has been sent so far
  newc,        \* new_content of the reconciliation a task is in
  mid,         \* msg_id local of the reconciliation a task is in
  editRes,     \* how the edit attempt of that reconciliation ended
  c429,        \* consecutive_429 of each scheduler loop
  bpc,         \* where the on_ready handler stands
  bmid,        \* msg_id local of bootstrap_roster_message
  bfetch,      \* how the validation fetch of bootstrap ended
  last         \* history: the operation that has just finished, if any

vars == <<week, sheet, cancelFile, msgId, cache, chan, pc, cmd, newc, mid,
          editRes, c429, bpc, bmid, bfetch, last>>

NoData == [wk |-> 0, is_cancelled |-> FALSE, reason |-> ""]
NoCmd == [name |-> "none", cancelled |-> FALSE, reason |-> "", reply |-> "none"]
NoLast == [op |-> "none", status |-> "none", edit |-> "none", send |-> "none",
           mid |-> 0, newId |-> 0, idAfter |-> 0, text |-> NoText,
           wrote |-> FALSE, scanned |-> FALSE,
           n |-> 0, sleep_s |-> 0, now |-> NoMoment,
           cmd |-> "none", reply |-> "none",
           confirmed |-> <<>>, waitlist |-> <<>>]

Init ==
  /\ week = 1
  /\ sheet \in Lists
  /\ cancelFile = NoData
  /\ msgId = 0
  /\ cache = NoText
  /\ chan = <<>>
  /\ pc = [p \in Procs |-> IF p \in Sched THEN "off" ELSE "idle"]
  /\ cmd = [a \in Admin |-> NoCmd]
  /\ newc = [p \in Procs |-> NoText]
  /\ mid = [p \in Procs |-> 0]
  /\ editRes = [p \in Procs |-> "none"]
  /\ c429 = [s \in Sched |-> 0]
  /\ bpc = "idle"
  /\ bmid = 0
  /\ bfetch = "none"
  /\ last = NoLast

\* ------------------------------------------------------------ state store
load_message_id == msgId

load_cached_roster_text == cache

\* Mutant: a record of another week is taken for the target week's.
CancelFileAfterLoadCarried(file, sunday) == [file EXCEPT !.wk = sunday]

\* load_cancel_state: the record of the target week; when the file has no
\* record of that week it is replaced by a default record of the week.
CancelFileAfterLoad(file, sunday) ==
  IF file.wk = sunday THEN file
  ELSE [wk |-> sunday, is_cancelled |-> FALSE, reason |-> ""]

save_cancel_state(is_cancelled, reason, sunday) ==
  [wk |-> sunday, is_cancelled |-> is_cancelled, reason |-> reason]

\* ------------------------------------------------------- messaging channel
Live(ch, i) == i \in 1..Len(ch) /\ ch[i].live

EditResults == {"ok", "404", "429", "http", "exc"}
FetchResults == {"ok", "404", "http", "exc"}
SendResults == {"ok", "429", "http", "exc"}

\* What the transport can answer to an edit of message i: it succeeds or
\* fails for a live message, and answers NotFound for a missing one.
CanEdit(ch, i, res) ==
  IF Live(ch, i) THEN res \in {"ok", "429", "http", "exc"}
  ELSE res \in {"404", "429", "http", "exc"}

ChanAfterEdit(ch, i, text) == [ch EXCEPT ![i] = [@ EXCEPT !.content = text]]

ChanAfterSend(ch, author, text) ==
  Append(ch, [author |-> author, content |-> text, live |-> TRUE])


\* ------------------------------------------------------------- reconciler
\* Mutant: the comparison with the cached text never finds it unchanged.
ContentNeverUnchanged(cached_text, new_content) == FALSE

\* update_roster_message, lines 93-96: skip when the cached text is the same
ContentUnchanged(cached_text, new_content) == cached_text = new_content

\* Mutant: a 429 on the edit is handled like any other HTTPException.
AfterEditNo429(res) ==
  CASE res \in {"ok", "404", "429", "http"} -> "continue"
    [] OTHER -> "error"

\* lines 108-117: what follows the edit attempt.  A 429 returns at once, any
\* other HTTPException is logged and control goes on to line 119, any other
\* exception reaches the outer handler.
AfterEdit(res) ==
  CASE res = "ok" -> "continue"
    [] res = "429" -> "rate_limited"
    [] res \in {"404", "http"} -> "continue"
    [] OTHER -> "error"

\* Mutant: the send is attempted whether or not the edit went through.
NeedSendAlways(msg_id, did_update) == TRUE

\* line 119: if not msg_id or not did_update
NeedSend(msg_id, did_update) == msg_id = 0 \/ ~did_update

\* lines 120-134: what follows the send attempt
AfterSend(res) ==
  CASE res = "ok" -> "continue"
    [] res = "429" -> "rate_limited"
    [] OTHER -> "error"

\* Mutant: the identifier of the new message is not saved.
IdAfterSendNotSaved(res, old_id, new_id) == old_id

\* lines 121-122: the identifier persisted once the send has answered
IdAfterSend(res, old_id, new_id) == IF res = "ok" THEN new_id ELSE old_id

\* lines 136-141
CacheAtReturn(did_update, cached_text, new_content) ==
  IF did_update THEN new_content ELSE cached_text

\* Mutant: the return after saving the text is missing, line 141 is reached.
FinalStatusError(did_update) == "error"

FinalStatus(did_update) == IF did_update THEN "edited" ELSE "error"

\* Mutant: the scheduler loop does not catch what the cycle raises.
OnCycleRaiseUncaught(p) == "raised"

\* What becomes of an exception that leaves update_roster_message (the sheet
\* fetch raised): roster_scheduler catches it and goes on with status error
\* (main.py lines 66-68); in a command task no status is returned.
OnCycleRaise(p) == IF p \in Sched THEN "error" ELSE "raised"

\* Mutant: an outcome other than rate_limited leaves the count as it is.
NextConsecutive429NoReset(status, consecutive_429) ==
  IF status = "rate_limited" THEN consecutive_429 + 1 ELSE consecutive_429

\* roster_scheduler, lines 70-73
NextConsecutive429(status, consecutive_429) ==
  IF status = "rate_limited" THEN consecutive_429 + 1 ELSE 0

\* main.py line 75: the delays get_roster_sleep_seconds may return for a
\* status and a count, the clock being at any of the moments.
SleepChoices ==
  [status \in Statuses, consecutive_429 \in 0..(Max429 + MaxStreak) |->
     UNION {get_roster_sleep_seconds(status, consecutive_429, now) : now \in Moments}]

\* do_update of /roster, lines 210-217: the reply chosen for the caller; an
\* exception is answered by the handler of lines 221-224.
RosterReply(status) ==
  CASE status = "edited" -> "success"
    [] status = "nochange" -> "nochange"
    [] status = "rate_limited" -> "rate_limited"
    [] OTHER -> "failed"

\* What the caller of command c has been told when its reconciliation ends
\* with the given status: /cancel and /uncancel drop the status (lines 255,
\* 277) and leave the reply they sent before.
ReplyAtEnd(c, status) ==
  IF c.name = "roster" THEN RosterReply(status) ELSE c.reply

\* The reconciliation of task p ends with status st: the values persisted and
\* the channel become idA, cacheA, chanA; a scheduler counts the outcome,
\* computes its delay and suspends (a scheduler task that an exception has
\* left is dead), a command task finishes.
CycleEnd(p, st, e, s, text, m, nid, idA, cacheA, chanA) ==
  /\ msgId' = idA
  /\ cache' = cacheA
  /\ chan' = chanA
  /\ pc' = [pc EXCEPT ![p] = IF p \in Admin THEN "idle"
                             ELSE IF st = "raised" THEN "dead" ELSE "sleep"]
  /\ c429' = IF p \in Sched
             THEN [c429 EXCEPT ![p] = NextConsecutive429(st, @)]
             ELSE c429
  /\ cmd' = IF p \in Admin THEN [cmd EXCEPT ![p] = NoCmd] ELSE cmd
  /\ newc' = [newc EXCEPT ![p] = NoText]
  /\ mid' = [mid EXCEPT ![p] = 0]
  /\ editRes' = [editRes EXCEPT ![p] = "none"]
  /\ \E sleep_s \in IF p \in Sched /\ st # "raised"
                    THEN SleepChoices[st, c429'[p]]
                    ELSE {0} :
         last' = [NoLast EXCEPT
                    !.op = "cycle", !.status = st, !.edit = e, !.send = s,
                    !.mid = m, !.newId = nid, !.idAfter = idA, !.text = text,
                    !.wrote = (idA # msgId \/ cacheA # cache),
                    !.n = IF p \in Sched THEN c429'[p] ELSE 0,
                    !.sleep_s = sleep_s,
                    !.cmd = IF p \in Admin THEN cmd[p].name ELSE "none",
                    !.reply = IF p \in Admin THEN ReplyAtEnd(cmd[p], st)
                              ELSE "none"]

\* A scheduler counts one more 429 only below the bound k of the model.
RoomFor429(p, res, k) == (res = "429" /\ p \in Sched) => c429[p] < k

\* update_roster_message up to its first await (lines 73-110 / 121), called
\* by task p with the given arguments.  fetchOk: the sheet answers; chOk:
\* client.get_channel finds the roster channel.
UpdateBegin(p, cancelled, reason, fetchOk, chOk) ==
  LET new_content == Render(sheet, cancelled, reason, week)
      msg_id == load_message_id
  IN  IF ~fetchOk
      THEN CycleEnd(p, OnCycleRaise(p), "none", "none", NoText, 0, 0,
                    msgId, cache, chan)
      ELSE IF ContentUnchanged(load_cached_roster_text, new_content)
      THEN CycleEnd(p, "nochange", "none", "none", new_content, 0, 0,
                    msgId, cache, chan)
      ELSE IF ~chOk
      THEN CycleEnd(p, "error", "none", "none", new_content, 0, 0,
                    msgId, cache, chan)
      ELSE /\ pc' = [pc EXCEPT ![p] = IF msg_id # 0 THEN "edit" ELSE "send"]
           /\ newc' = [newc EXCEPT ![p] = new_content]
           /\ mid' = [mid EXCEPT ![p] = msg_id]
           /\ editRes' = [editRes EXCEPT ![p] = "none"]
           /\ last' = NoLast
           /\ UNCHANGED <<msgId, cache, chan, c429, cmd>>

\* asyncio.sleep(sleep_s) of the scheduler returns (main.py line 77): the
\* delay is over.
SchedWake(s) ==
  /\ pc[s] = "sleep"
  /\ pc' = [pc EXCEPT ![s] = "wait"]
  /\ last' = [last EXCEPT !.sleep_s = 0]
  /\ UNCHANGED <<week, sheet, cancelFile, msgId, cache, chan, cmd, newc, mid,
                 editRes, c429, bpc, bmid, bfetch>>

\* One cycle of roster_scheduler begins: the task has been created, or its
\* asyncio.sleep has returned (main.py lines 59-65).
SchedBegin(s) ==
  /\ pc[s] = "wait"
  /\ LET file == CancelFileAfterLoad(cancelFile, week)
     IN  /\ cancelFile' = file
         /\ \E fetchOk \in BOOLEAN, chOk \in BOOLEAN :
              UpdateBegin(s, file.is_cancelled, file.reason, fetchOk, chOk)
  /\ UNCHANGED <<week, sheet, bpc, bmid, bfetch>>

\* The edit of task p answers (discord_bot.py lines 110-119, 136-141).
EditReply(p, res) ==
  /\ pc[p] = "edit"
  /\ CanEdit(chan, mid[p], res)
  /\ LET did_update == (res = "ok")
         chanA == IF res = "ok" THEN ChanAfterEdit(chan, mid[p], newc[p]) ELSE chan
         step == AfterEdit(res)
     IN  IF step = "continue"
         THEN IF NeedSend(mid[p], did_update)
              THEN /\ pc' = [pc EXCEPT ![p] = "send"]
                   /\ editRes' = [editRes EXCEPT ![p] = res]
                   /\ chan' = chanA
                   /\ last' = NoLast
                   /\ UNCHANGED <<msgId, cache, c429, cmd, newc, mid>>
              ELSE CycleEnd(p, FinalStatus(did_update), res, "none", newc[p], mid[p],
                            0, msgId, CacheAtReturn(did_update, cache, newc[p]), chanA)
         ELSE CycleEnd(p, step, res, "none", newc[p], mid[p], 0, msgId, cache, chanA)
  /\ UNCHANGED <<week, sheet, cancelFile, bpc, bmid, bfetch>>

\* The send of task p answers (discord_bot.py lines 121-141).
SendReply(p, res) ==
  /\ pc[p] = "send"
  /\ res = "ok" => Len(chan) < MaxMsgs
  /\ LET new_id == Len(chan) + 1
         did_update == (res = "ok" \/ editRes[p] = "ok")
         chanA == IF res = "ok" THEN ChanAfterSend(chan, "bot", newc[p]) ELSE chan
         idA == IdAfterSend(res, msgId, new_id)
         step == AfterSend(res)
     IN  IF step = "continue"
         THEN CycleEnd(p, FinalStatus(did_update), editRes[p], res, newc[p], mid[p],
                       IF res = "ok" THEN new_id ELSE 0, idA,
                       CacheAtReturn(did_update, cache, newc[p]), chanA)
         ELSE CycleEnd(p, step, editRes[p], res, newc[p], mid[p], 0, idA, cache, chanA)
  /\ UNCHANGED <<week, sheet, cancelFile, bpc, bmid, bfetch>>


\* ------------------------------------------------------ slash commands
\* /roster: defer, then do_update runs as a task of its own and calls
\* update_roster_message() with its default arguments (lines 202-228).
RosterCmd(a) ==
  /\ pc[a] = "idle"
  /\ pc' = [pc EXCEPT ![a] = "ready"]
  /\ cmd' = [cmd EXCEPT ![a] = [name |-> "roster", cancelled |-> FALSE, reason |-> "",
                              reply |-> "none"]]
  /\ UNCHANGED <<week, sheet, cancelFile, msgId, cache, chan, newc, mid, editRes,
                 c429, bpc, bmid, bfetch, last>>

\* /cancel up to its first await: the state is saved and the reply is sent
\* (lines 234-245).
CancelCmd(a, reason) ==
  /\ pc[a] = "idle"
  /\ cancelFile' = save_cancel_state(TRUE, reason, week)
  /\ pc' = [pc EXCEPT ![a] = "ready"]
  /\ cmd' = [cmd EXCEPT ![a] = [name |-> "cancel", cancelled |-> TRUE,
                              reason |-> reason, reply |-> "success"]]
  /\ UNCHANGED <<week, sheet, msgId, cache, chan, newc, mid, editRes, c429, bpc,
                 bmid, bfetch>>
  /\ last' = NoLast

\* /uncancel up to its first await (lines 260-270).
UncancelCmd(a) ==
  /\ pc[a] = "idle"
  /\ cancelFile' = save_cancel_state(FALSE, "", week)
  /\ pc' = [pc EXCEPT ![a] = "ready"]
  /\ cmd' = [cmd EXCEPT ![a] = [name |-> "uncancel", cancelled |-> FALSE,
                              reason |-> "", reply |-> "success"]]
  /\ UNCHANGED <<week, sheet, msgId, cache, chan, newc, mid, editRes, c429, bpc,
                 bmid, bfetch>>
  /\ last' = NoLast

\* The command task reaches update_roster_message: do_update is scheduled,
\* or the reply and the announcement of /cancel, /uncancel have been sent
\* (lines 207, 247-255, 272-277).
AdminBegin(a) ==
  /\ pc[a] = "ready"
  /\ \E fetchOk \in BOOLEAN, chOk \in BOOLEAN :
       UpdateBegin(a, cmd[a].cancelled, cmd[a].reason, fetchOk, chOk)
  /\ UNCHANGED <<week, sheet, cancelFile, bpc, bmid, bfetch>>

\* /cancel or /uncancel ends without reconciling: the reply or the
\* announcement raised, or get_channel found no roster channel.
AdminAbort(a) ==
  /\ pc[a] = "ready"
  /\ cmd[a].name \in {"cancel", "uncancel"}
  /\ pc' = [pc EXCEPT ![a] = "idle"]
  /\ cmd' = [cmd EXCEPT ![a] = NoCmd]
  /\ UNCHANGED <<week, sheet, cancelFile, msgId, cache, chan, newc, mid, editRes,
                 c429, bpc, bmid, bfetch>>
  /\ last' = NoLast

\* --------------------------------------------------- on_ready, bootstrap
\* channel.history(limit=5): the newest live messages, newest first
Recent(ch) ==
  {i \in 1..Len(ch) :
     /\ ch[i].live
     /\ Cardinality({j \in 1..Len(ch) : j > i /\ ch[j].live}) < HistoryLimit}

\* Mutant: the scan does not look at the author.
IsRosterPostAnyAuthor(m) ==
  \E prefix \in marker_prefixes : StartsWith(m.content, prefix)

\* line 190: authored by the bot and starting with a marker prefix
IsRosterPost(m) ==
  m.author = "bot" /\ \E prefix \in marker_prefixes : StartsWith(m.content, prefix)

\* lines 189-194: the first such message of the scan, 0 when there is none
FirstRosterPost(ch) ==
  LET hits == {i \in Recent(ch) : IsRosterPost(ch[i])}
  IN  IF hits = {} THEN 0 ELSE CHOOSE i \in hits : \A j \in hits : j <= i

\* lines 172-181: what follows the validation fetch of the stored identifier
AfterFetch(res) ==
  CASE res = "ok" -> "return"
    [] res \in {"404", "http"} -> "scan"
    [] OTHER -> "raise"

FreeSched == {s \in Sched : pc[s] = "off"}

\* main.py line 98: create_task(roster_scheduler()); bootstrap has returned
\* or raised, leaving idA and cacheA persisted.
BootEnd(status, fetched, scanned, idA, cacheA) ==
  /\ LET s == CHOOSE t \in FreeSched : \A u \in FreeSched : t <= u
     IN  /\ pc' = [pc EXCEPT ![s] = "wait"]
         /\ c429' = [c429 EXCEPT ![s] = 0]
  /\ msgId' = idA
  /\ cache' = cacheA
  /\ bpc' = "idle"
  /\ bmid' = 0
  /\ bfetch' = "none"
  /\ last' = [NoLast EXCEPT
                !.op = "boot", !.status = status, !.edit = fetched,
                !.mid = bmid, !.idAfter = idA, !.text = cacheA,
                !.wrote = (idA # msgId \/ cacheA # cache), !.scanned = scanned]
  /\ UNCHANGED <<week, sheet, cancelFile, chan, cmd, newc, mid, editRes>>

\* on_ready fires (main.py lines 81-94, discord_bot.py lines 162-168); the
\* model lets it fire while a scheduler slot is free.
OnReady(chOk) ==
  /\ bpc = "idle"
  /\ FreeSched # {}
  /\ IF chOk
     THEN /\ bpc' = "delay"
          /\ last' = NoLast
          /\ UNCHANGED <<week, sheet, cancelFile, msgId, cache, chan, pc, cmd, newc,
                         mid, editRes, c429, bmid, bfetch>>
     ELSE BootEnd("nochannel", "none", FALSE, msgId, cache)

\* asyncio.sleep(1.5) returns: the stored identifier is read (lines 170-175).
BootLoad ==
  /\ bpc = "delay"
  /\ bmid' = load_message_id
  /\ bfetch' = "none"
  /\ bpc' = IF load_message_id # 0 THEN "validate" ELSE "scan"
  /\ UNCHANGED <<week, sheet, cancelFile, msgId, cache, chan, pc, cmd, newc, mid,
                 editRes, c429>>
  /\ last' = NoLast

\* partial.fetch() answers (lines 175-181).
BootValidate(res) ==
  /\ bpc = "validate"
  /\ IF Live(chan, bmid) THEN res # "404" ELSE res # "ok"
  /\ LET step == AfterFetch(res)
     IN  IF step = "scan"
         THEN /\ bpc' = "scan"
              /\ bfetch' = res
              /\ last' = NoLast
              /\ UNCHANGED <<week, sheet, cancelFile, msgId, cache, chan, pc, cmd,
                             newc, mid, editRes, c429, bmid>>
         ELSE BootEnd(IF step = "return" THEN "valid" ELSE "failed", res, FALSE,
                      msgId, cache)

\* channel.history(limit=5) answers (lines 188-197).
BootScan(ok) ==
  /\ bpc = "scan"
  /\ LET m == FirstRosterPost(chan)
     IN  IF ~ok THEN BootEnd("failed", bfetch, TRUE, msgId, cache)
         ELSE IF m # 0 THEN BootEnd("adopted", bfetch, TRUE, m, chan[m].content)
         ELSE BootEnd("nothing", bfetch, TRUE, msgId, cache)

\* ------------------------------------------------------------ environment
\* The sign-up sheet of the target week changes.
SheetEdit ==
  /\ \E l \in Lists \ {sheet} : sheet' = l
  /\ UNCHANGED <<week, cancelFile, msgId, cache, chan, pc, cmd, newc, mid, editRes,
                 c429, bpc, bmid, bfetch>>
  /\ last' = NoLast

\* The target week rolls to the next Sunday, which has no sign-up rows yet.
WeekRoll ==
  /\ week < MaxWeek
  /\ week' = week + 1
  /\ sheet' = <<>>
  /\ UNCHANGED <<cancelFile, msgId, cache, chan, pc, cmd, newc, mid, editRes, c429,
                 bpc, bmid, bfetch>>
  /\ last' = NoLast

\* Somebody deletes a message of the roster channel.
DeleteMsg(i) ==
  /\ Live(chan, i)
  /\ chan' = [chan EXCEPT ![i] = [@ EXCEPT !.live = FALSE, !.content = NoText]]
  /\ UNCHANGED <<week, sheet, cancelFile, msgId, cache, pc, cmd, newc, mid, editRes,
                 c429, bpc, bmid, bfetch>>
  /\ last' = NoLast

\* Somebody else posts in the roster channel.
ForeignPost ==
  /\ Len(chan) < MaxMsgs
  /\ chan' = ChanAfterSend(chan, "other", ForeignText)
  /\ UNCHANGED <<week, sheet, cancelFile, msgId, cache, pc, cmd, newc, mid, editRes,
                 c429, bpc, bmid, bfetch>>
  /\ last' = NoLast

\* The process is restarted (crash, redeploy): every task is gone; the state
\* files survive, or are lost with the disk.
Restart(keep) ==
  /\ pc' = [p \in Procs |-> IF p \in Sched THEN "off" ELSE "idle"]
  /\ cmd' = [a \in Admin |-> NoCmd]
  /\ newc' = [p \in Procs |-> NoText]
  /\ mid' = [p \in Procs |-> 0]
  /\ editRes' = [p \in Procs |-> "none"]
  /\ c429' = [s \in Sched |-> 0]
  /\ bpc' = "idle"
  /\ bmid' = 0
  /\ bfetch' = "none"
  /\ last' = NoLast
  /\ msgId' = IF keep THEN msgId ELSE 0
  /\ cache' = IF keep THEN cache ELSE NoText
  /\ cancelFile' = IF keep THEN cancelFile ELSE NoData
  /\ UNCHANGED <<week, sheet, chan>>

\* ---------------------------------------------------------- specification
\* on_ready fires for the first time.
FirstReady(chOk) == (\A s \in Sched : pc[s] = "off") /\ OnReady(chOk)

\* The scheduler loops, on_ready and bootstrap.
SchedNext ==
  \/ \E s \in Sched : SchedBegin(s)
  \/ \E s \in Sched : SchedWake(s)
  \/ \E p \in Procs, res \in EditResults :
       RoomFor429(p, res, Max429) /\ EditReply(p, res)
  \/ \E p \in Procs, res \in SendResults :
       RoomFor429(p, res, Max429) /\ SendReply(p, res)
  \/ \E chOk \in BOOLEAN : OnReady(chOk)
  \/ BootLoad
  \/ \E res \in FetchResults : BootValidate(res)
  \/ \E ok \in BOOLEAN : BootScan(ok)

\* The slash commands.
AdminNext ==
  \/ \E a \in Admin : RosterCmd(a)
  \/ \E a \in Admin, reason \in Reasons : CancelCmd(a, reason)
  \/ \E a \in Admin : UncancelCmd(a)
  \/ \E a \in Admin : AdminBegin(a)
  \/ \E a \in Admin : AdminAbort(a)

\* What happens around the process.
EnvNext ==
  \/ SheetEdit
  \/ \E i \in 1..MaxMsgs : DeleteMsg(i)
  \/ ForeignPost
  \/ \E keep \in BOOLEAN : Restart(keep)

\* Any number of on_ready events, so up to MaxSched scheduler loops.
Next == SchedNext \/ EnvNext

Spec == Init /\ [][Next]_vars


\* One scheduler loop, bootstrap and what happens around the process.
CoreNext ==
  \/ \E s \in Sched : SchedBegin(s)
  \/ \E s \in Sched : SchedWake(s)
  \/ \E p \in Procs, res \in EditResults :
       RoomFor429(p, res, Max429) /\ EditReply(p, res)
  \/ \E p \in Procs, res \in SendResults :
       RoomFor429(p, res, Max429) /\ SendReply(p, res)
  \/ \E chOk \in BOOLEAN : FirstReady(chOk)
  \/ BootLoad
  \/ \E res \in FetchResults : BootValidate(res)
  \/ \E ok \in BOOLEAN : BootScan(ok)
  \/ EnvNext

CoreSpec == Init /\ [][CoreNext]_vars

\* One scheduler loop and the slash commands.
AdminSpecNext ==
  \/ \E s \in Sched : SchedBegin(s)
  \/ \E s \in Sched : SchedWake(s)
  \/ \E p \in Procs, res \in EditResults :
       RoomFor429(p, res, Max429) /\ EditReply(p, res)
  \/ \E p \in Procs, res \in SendResults :
       RoomFor429(p, res, Max429) /\ SendReply(p, res)
  \/ \E chOk \in BOOLEAN : FirstReady(chOk)
  \/ BootLoad
  \/ \E res \in FetchResults : BootValidate(res)
  \/ \E ok \in BOOLEAN : BootScan(ok)
  \/ AdminNext
  \/ \E i \in 1..MaxMsgs : DeleteMsg(i)

AdminSpec == Init /\ [][AdminSpecNext]_vars


\* ------------------------------------------------------------------ claims
InFlight == {"edit", "send"}

\* C1: a create is issued only in a cycle that found no persisted identifier
\* at its start, or whose edit failed with NotFound; an edit that fails for
\* another reason never leads to a create.
C1_CreateOnlyIfAbsentOrNotFound ==
  /\ \A p \in Procs : pc[p] = "send" => (mid[p] = 0 \/ editRes[p] = "404")
  /\ (last.op = "cycle" /\ last.send # "none") => (last.mid = 0 \/ last.edit = "404")

\* C2: at most one reconciliation is between its read of the persisted state
\* and its write-back.
C2_NoInterleaving == Cardinality({p \in Procs : pc[p] \in InFlight}) <= 1

\* C3: at most one roster_scheduler loop is active, whatever the number of
\* on_ready events.
C3_SingleScheduler == Cardinality({s \in Sched : pc[s] \notin {"off", "dead"}}) <= 1

\* C4: a reconciliation that starts right after one that returned Edited,
\* and renders the same text, returns nochange, issues no edit and no create
\* and writes neither the persisted identifier nor the cached text.
C4_Idempotent ==
  [][(last.op = "cycle" /\ last.status = "edited") =>
       /\ \A p \in Procs :
            (pc[p] \notin InFlight /\ pc'[p] \in InFlight) => newc'[p] # last.text
       /\ (last'.op = "cycle" /\ last'.edit = "none" /\ last'.send = "none"
             /\ last'.text = last.text)
            => (last'.status = "nochange" /\ UNCHANGED <<msgId, cache, chan>>)]_vars

C4_Witness ==
  /\ last.op = "cycle" /\ last.status = "nochange"
  /\ Live(chan, msgId) /\ chan[msgId].content = cache /\ last.text = cache

\* C5: a cycle whose edit or create is answered 429 returns rate_limited and
\* writes neither the persisted identifier nor the cached text; after a 429
\* on the edit no create is attempted.
C5_RateLimitedFrame ==
  /\ \A p \in Procs : pc[p] = "send" => editRes[p] # "429"
  /\ (last.op = "cycle" /\ (last.edit = "429" \/ last.send = "429")) =>
       /\ last.status = "rate_limited"
       /\ ~last.wrote
       /\ last.edit = "429" => last.send = "none"

C5_Witness == last.op = "cycle" /\ last.edit = "429" /\ last.status = "rate_limited"

\* C6: a cycle whose outcome is error writes neither the persisted
\* identifier nor the cached text.
C6_ErrorFrame ==
  (last.op = "cycle" /\ last.status = "error") => ~last.wrote

C6_Witness ==
  /\ last.op = "cycle" /\ last.status = "error"
  /\ last.mid # 0 /\ last.send = "http" /\ msgId = last.mid

\* C7: no cycle both edits and creates with success, and a cycle that
\* returns edited made exactly one successful edit or one successful create.
C7_OneMutation ==
  last.op = "cycle" =>
    /\ ~(last.edit = "ok" /\ last.send = "ok")
    /\ last.status = "edited" => ((last.edit = "ok") # (last.send = "ok"))

C7_Witness ==
  last.op = "cycle" /\ last.status = "edited" /\ last.edit = "404" /\ last.send = "ok"

\* C8: after NotFound on the edit the cycle goes on to a create, and when
\* the create returns, the persisted identifier is the one it returned, not
\* the stale one.
C8_RecreateAfterNotFound ==
  /\ \A p \in Procs : editRes[p] = "404" => pc[p] = "send"
  /\ (last.op = "cycle" /\ last.edit = "404") => last.send # "none"
  /\ (last.op = "cycle" /\ last.edit = "404" /\ last.send = "ok") =>
       (msgId = last.newId /\ last.newId # last.mid /\ Live(chan, msgId))

C8_Witness ==
  last.op = "cycle" /\ last.edit = "404" /\ last.send = "ok" /\ last.mid # 0


\* C10: bootstrap issues no create and no edit; when the stored identifier
\* resolves it returns without scanning and writes nothing; when the scan
\* answers and a recent message of the bot starts with a marker prefix, the
\* persisted identifier and cached text become that message's id and content.
BootstrapStep == bpc' # bpc \/ (last'.op = "boot" /\ pc' # pc)

C10_Bootstrap ==
  /\ [][BootstrapStep => chan' = chan]_vars
  /\ [](bpc = "scan" => bfetch # "ok")
  /\ []((last.op = "boot" /\ last.edit = "ok") =>
          (last.status = "valid" /\ ~last.scanned /\ ~last.wrote))
  /\ []((last.op = "boot" /\ last.scanned /\ last.status # "failed") =>
          IF \E i \in Recent(chan) :
               /\ chan[i].author = "bot"
               /\ \E prefix \in marker_prefixes : StartsWith(chan[i].content, prefix)
          THEN /\ last.status = "adopted"
               /\ msgId \in Recent(chan)
               /\ chan[msgId].author = "bot"
               /\ \E prefix \in marker_prefixes : StartsWith(chan[msgId].content, prefix)
               /\ cache = chan[msgId].content
          ELSE last.status = "nothing" /\ ~last.wrote)

C10_Witness ==
  /\ last.op = "boot" /\ last.status = "adopted" /\ last.wrote
  /\ \E i \in Recent(chan) : chan[i].author = "other"

\* -------------------------------------------------------------- liveness
\* No cycle of a scheduler loop is due or running.
Asleep == \A s \in Sched : pc[s] \in {"off", "sleep", "dead"}

\* One scheduler loop in a process that lives on, started with no stored
\* identifier; every external call is answered or fails, and every
\* asyncio.sleep returns.  The sheet changes and messages are deleted
\* between the cycles.
LiveNext ==
  \/ \E s \in Sched : SchedBegin(s)
  \/ \E s \in Sched : SchedWake(s)
  \/ \E p \in Procs, res \in EditResults :
       RoomFor429(p, res, Max429) /\ EditReply(p, res)
  \/ \E p \in Procs, res \in SendResults :
       RoomFor429(p, res, Max429) /\ SendReply(p, res)
  \/ \E chOk \in BOOLEAN : FirstReady(chOk)
  \/ BootLoad
  \/ \E ok \in BOOLEAN : BootScan(ok)
  \/ Asleep /\ SheetEdit
  \/ \E i \in 1..MaxMsgs : Asleep /\ DeleteMsg(i)

LiveSpec ==
  /\ Init
  /\ [][LiveNext]_vars
  /\ \A s \in Sched :
       /\ WF_vars(SchedBegin(s))
       /\ WF_vars(SchedWake(s))
       /\ WF_vars(\E res \in EditResults :
                     RoomFor429(s, res, Max429) /\ EditReply(s, res))
       /\ WF_vars(\E res \in SendResults :
                     RoomFor429(s, res, Max429) /\ SendReply(s, res))

\* C9: whatever the outcome of a cycle, the loop goes on: every cycle that
\* is due or running ends in the suspension of the loop, and after every
\* suspension the next cycle is due.
C9_SchedulerLive ==
  \A s \in Sched :
    /\ [](pc[s] \in {"wait", "edit", "send"} => <>(pc[s] = "sleep"))
    /\ [](pc[s] = "sleep" => <>(pc[s] = "wait"))
    /\ [](pc[s] # "dead")

C9_Witness ==
  \E s \in Sched :
    pc[s] = "sleep" /\ c429[s] > 0 /\ last.op = "cycle" /\ last.status = "rate_limited"

\* C11: when bootstrap has found no usable roster message (the stored
\* identifier is absent or does not resolve, and the scan finds nothing),
\* the cycle that follows it goes on to the channel: it never returns
\* nochange without a create, whatever the cached text holds.
C11_FirstCycleCreates ==
  [][(last.op = "boot" /\ last.status = "nothing" /\ last'.op = "cycle")
       => last'.status # "nochange"]_vars

\* ---------------------------------------------------------------- cadence
\* get_roster_sleep_seconds(status, consecutive_429) is called and returns;
\* the clock is read only when the status is edited or nochange.
Cadence(status, consecutive_429, now) ==
  /\ \E sleep_s \in get_roster_sleep_seconds(status, consecutive_429, now) :
       last' = [NoLast EXCEPT !.op = "cadence", !.status = status,
                              !.n = consecutive_429, !.sleep_s = sleep_s,
                              !.now = IF status \in {"rate_limited", "error"}
                                      THEN NoMoment ELSE now]
  /\ UNCHANGED <<week, sheet, cancelFile, msgId, cache, chan, pc, cmd, newc, mid,
                 editRes, c429, bpc, bmid, bfetch>>

\* The calls of get_roster_sleep_seconds one after another, with every
\* status, every count the loop can pass (at least 1 with rate_limited) and
\* the clock at any of the moments.
CadenceNext ==
  \E status \in Statuses, consecutive_429 \in 0..MaxStreak, now \in Moments :
    /\ status = "rate_limited" => consecutive_429 >= 1
    /\ Cadence(status, consecutive_429, now)

CadenceSpec == Init /\ [][CadenceNext]_vars

\* C12: of two delays computed for status rate_limited, the one computed
\* with the greater count (one more, or two more as the third of three
\* cycles against the first) is strictly greater, whatever the jitter.
C12_BackoffMonotone ==
  [][(/\ last.op = "cadence" /\ last.status = "rate_limited"
      /\ last'.op = "cadence" /\ last'.status = "rate_limited"
      /\ last.n >= 1 /\ last'.n \in {last.n + 1, last.n + 2})
       => last'.sleep_s > last.sleep_s]_vars

C12_Witness ==
  /\ last.op = "cadence" /\ last.status = "rate_limited"
  /\ last.n = 3 /\ last.sleep_s = 240 * 60

\* ---------------------------------------------------------------- back-off
\* One scheduler loop whose calls may be answered 429 up to MaxStreak times
\* in a row, while the sheet changes and messages are deleted.
BackoffNext ==
  \/ \E s \in Sched : SchedBegin(s)
  \/ \E s \in Sched : SchedWake(s)
  \/ \E p \in Procs, res \in EditResults :
       RoomFor429(p, res, MaxStreak) /\ EditReply(p, res)
  \/ \E p \in Procs, res \in SendResults :
       RoomFor429(p, res, MaxStreak) /\ SendReply(p, res)
  \/ \E chOk \in BOOLEAN : FirstReady(chOk)
  \/ BootLoad
  \/ \E ok \in BOOLEAN : BootScan(ok)
  \/ SheetEdit
  \/ \E i \in 1..MaxMsgs : DeleteMsg(i)

BackoffSpec == Init /\ [][BackoffNext]_vars

\* C13: a scheduled cycle that ends rate_limited makes the count one more
\* and its delay lies between 60 * 2^(n-1) and 90 * 2^(n-1) minutes for the
\* new count n; a cycle that ends otherwise makes the count 0; nothing else
\* changes the count of a running loop.
C13_BackoffCount ==
  [][\A s \in Sched :
       IF pc[s] \in {"wait", "edit", "send"} /\ pc'[s] = "sleep"
       THEN /\ last'.op = "cycle" /\ last'.n = c429'[s]
            /\ IF last'.status = "rate_limited"
               THEN /\ c429'[s] = c429[s] + 1
                    /\ last'.sleep_s >= 60 * 60 * Pow2(c429'[s] - 1)
                    /\ last'.sleep_s <= 90 * 60 * Pow2(c429'[s] - 1)
               ELSE c429'[s] = 0
       ELSE c429'[s] = c429[s]]_vars

C13_Witness ==
  \E s \in Sched :
    /\ pc[s] = "sleep" /\ c429[s] = 2
    /\ last.op = "cycle" /\ last.status = "rate_limited"
    /\ last.sleep_s = 180 * 60

\* C14: every delay computed for status error lies between 45 and 60
\* minutes, at every moment of the week and for every count; so does each
\* of several in a row.
C14_ErrorBand ==
  (last.op = "cadence" /\ last.status = "error") =>
     (last.sleep_s >= 45 * 60 /\ last.sleep_s <= 60 * 60)

C14_Witness ==
  /\ last.op = "cadence" /\ last.status = "error"
  /\ last.n = MaxStreak /\ last.sleep_s = 60 * 60

\* Hours since Monday 0:00; Friday 12:00 is hour 108, Sunday 14:00 hour 158.
HourOfWeek(now) == now.weekday * 24 + now.hour

InWindow(now) == HourOfWeek(now) >= 108 /\ HourOfWeek(now) < 158

Windowed == last.op = "cadence" /\ last.status \in {"edited", "nochange"}

\* C15: the short delays (about 20 minutes for edited, eased off for
\* nochange) are computed exactly from Friday 12:00 to Sunday 14:00; inside
\* that window every delay for nochange is longer than every delay for
\* edited and shorter than every delay computed outside it; outside it
\* nochange and edited both draw from 115 to 125 minutes.
C15_ActiveWindow ==
  /\ [](Windowed => (last.sleep_s < 115 * 60 <=> InWindow(last.now)))
  /\ []((Windowed /\ ~InWindow(last.now)) =>
          (last.sleep_s >= 115 * 60 /\ last.sleep_s <= 125 * 60))
  /\ [][(/\ Windowed /\ last.status = "edited" /\ InWindow(last.now)
         /\ Windowed' /\ last'.status = "nochange" /\ InWindow(last'.now))
          => last'.sleep_s > last.sleep_s]_vars
  /\ [][(/\ Windowed /\ last.status = "nochange" /\ InWindow(last.now)
         /\ last'.op = "cadence" /\ ~InWindow(last'.now))
          => last'.sleep_s > last.sleep_s]_vars

C15_Witness ==
  /\ Windowed /\ last.status = "nochange"
  /\ last.now = [weekday |-> 4, hour |-> 12] /\ last.sleep_s = 41 * 60

\* C16: the caller of a command is sent no reply before the reconciliation
\* the command starts has ended, and the reply it has when the
\* reconciliation has ended tells the outcome: success only for edited.
C16_ReplyTellsOutcome ==
  /\ \A a \in Admin : pc[a] \in {"ready", "edit", "send"} => cmd[a].reply = "none"
  /\ (last.op = "cycle" /\ last.cmd # "none") =>
       /\ last.reply # "none"
       /\ last.reply = "success" <=> last.status = "edited"

\* --------------------------------------------------------------- partition
\* Participant lists up to MaxRows long, all "ann" but for at most one "bob".
LongLists ==
  {[i \in 1..n |-> IF i = k THEN "bob" ELSE "ann"] : n \in 0..MaxRows, k \in 0..MaxRows}

PartitionInit ==
  /\ week = 1
  /\ sheet \in LongLists
  /\ cancelFile = NoData
  /\ msgId = 0
  /\ cache = NoText
  /\ chan = <<>>
  /\ pc = [p \in Procs |-> IF p \in Sched THEN "off" ELSE "idle"]
  /\ cmd = [a \in Admin |-> NoCmd]
  /\ newc = [p \in Procs |-> NoText]
  /\ mid = [p \in Procs |-> 0]
  /\ editRes = [p \in Procs |-> "none"]
  /\ c429 = [s \in Sched |-> 0]
  /\ bpc = "idle"
  /\ bmid = 0
  /\ bfetch = "none"
  /\ last = NoLast

\* get_confirmed_and_waitlist() is called and returns.
Partition ==
  /\ LET r == get_confirmed_and_waitlist(sheet)
     IN  last' = [NoLast EXCEPT !.op = "partition", !.confirmed = r.confirmed,
                                !.waitlist = r.waitlist]
  /\ UNCHANGED <<week, sheet, cancelFile, msgId, cache, chan, pc, cmd, newc, mid,
                 editRes, c429, bpc, bmid, bfetch>>

\* The rows of the target week become another list.
RowsChange ==
  /\ \E l \in LongLists :
       /\ Len(l) \in {Len(sheet) - 1, Len(sheet) + 1}
       /\ sheet' = l
  /\ last' = NoLast
  /\ UNCHANGED <<week, cancelFile, msgId, cache, chan, pc, cmd, newc, mid,
                 editRes, c429, bpc, bmid, bfetch>>

PartitionNext == Partition \/ RowsChange

PartitionSpec == PartitionInit /\ [][PartitionNext]_vars

\* C17: for a participant list of length N, confirmed has min(N, 21)
\* entries, waitlist the other N - min(N, 21), and confirmed followed by
\* waitlist is the participant list, entry by entry.
C17_Partition ==
  last.op = "partition" =>
    LET N == Len(sheet)
    IN  /\ Len(last.confirmed) = IF N < 21 THEN N ELSE 21
        /\ Len(last.waitlist) = N - Len(last.confirmed)
        /\ last.confirmed \o last.waitlist = sheet

C17_Witness ==
  /\ last.op = "partition" /\ Len(sheet) = 23 /\ sheet[22] = "bob"
  /\ Len(last.waitlist) = 2 /\ last.waitlist[1] = "bob"

\* ------------------------------------------------------------- target week
FirstAdmin == MaxSched + 1

\* One scheduler loop, the target week rolling to the next Sunday, and
\* /cancel and /uncancel one at a time; the commands save the state, reply
\* and end (their reconciliation, which does not touch cancel_state.json,
\* is in AdminSpec).
WeekNext ==
  \/ \E s \in Sched : SchedBegin(s)
  \/ \E s \in Sched : SchedWake(s)
  \/ \E p \in Procs, res \in EditResults :
       RoomFor429(p, res, Max429) /\ EditReply(p, res)
  \/ \E p \in Procs, res \in SendResults :
       RoomFor429(p, res, Max429) /\ SendReply(p, res)
  \/ \E chOk \in BOOLEAN : FirstReady(chOk)
  \/ BootLoad
  \/ \E ok \in BOOLEAN : BootScan(ok)
  \/ \E reason \in Reasons : CancelCmd(FirstAdmin, reason)
  \/ UncancelCmd(FirstAdmin)
  \/ AdminAbort(FirstAdmin)
  \/ WeekRoll

WeekSpec == Init /\ [][WeekNext]_vars

\* /cancel or /uncancel saves the state it was given.
AdminSaves ==
  \E a \in Admin :
    /\ pc[a] = "idle" /\ pc'[a] = "ready"
    /\ cmd'[a].name \in {"cancel", "uncancel"}
    /\ cancelFile' = [wk |-> week, is_cancelled |-> cmd'[a].cancelled,
                      reason |-> cmd'[a].reason]

\* C18: while cancel_state.json holds the record of the target week, only
\* /cancel and /uncancel change it; when it holds no record of the target
\* week, a step that is not one of those commands leaves it alone or
\* replaces it by the default record of the target week (not cancelled,
\* empty reason), and this is what the first cycle of a new week does.
C18_CancelFrame ==
  /\ [][(cancelFile' # cancelFile /\ ~AdminSaves) =>
          /\ cancelFile.wk # week
          /\ cancelFile' = [wk |-> week, is_cancelled |-> FALSE, reason |-> ""]]_vars
  /\ [][\A s \in Sched : (pc[s] = "wait" /\ pc'[s] # "wait") =>
          /\ cancelFile'.wk = week
          /\ cancelFile.wk # week => ~cancelFile'.is_cancelled
          /\ pc'[s] \in InFlight =>
               (StartsWith(newc'[s], BannerPrefix) <=> cancelFile'.is_cancelled)]_vars

C18_Witness ==
  /\ week = 2 /\ cancelFile = [wk |-> 2, is_cancelled |-> FALSE, reason |-> ""]
  /\ \E i \in 1..Len(chan) : chan[i].live /\ StartsWith(chan[i].content, BannerPrefix)

\* ------------------------------------------------------- calls that hang
\* An external call of task p never answers: the sheet fetch of line 74
\* (when the cycle is due), partial.edit or channel.send.  The code sets no
\* timeout on any of them, so the task has no further step.
CallHangs(p) ==
  /\ pc[p] \in {"wait", "edit", "send"}
  /\ pc' = [pc EXCEPT ![p] = "hung"]
  /\ last' = NoLast
  /\ UNCHANGED <<week, sheet, cancelFile, msgId, cache, chan, cmd, newc, mid,
                 editRes, c429, bpc, bmid, bfetch>>

\* One scheduler loop whose external calls are answered, fail, or hang.
HangNext ==
  \/ LiveNext
  \/ \E s \in Sched : CallHangs(s)

\* A cycle that is due begins, a call that has not hung is answered or
\* fails, and a sleep returns.
HangSpec ==
  /\ Init
  /\ [][HangNext]_vars
  /\ \A s \in Sched :
       /\ WF_vars(SchedBegin(s))
       /\ WF_vars(SchedWake(s))
       /\ WF_vars(\E res \in EditResults :
                     RoomFor429(s, res, Max429) /\ EditReply(s, res))
       /\ WF_vars(\E res \in SendResults :
                     RoomFor429(s, res, Max429) /\ SendReply(s, res))

\* C19: a cycle of the scheduler loop always ends, also when an external
\* call never answers, and the loop goes on to its next suspension.
C19_NoIndefiniteBlock ==
  \A s \in Sched :
    [](pc[s] \in {"wait", "edit", "send", "hung"} => <>(pc[s] = "sleep"))

\* C20: while bootstrap_roster_message is in progress (its delay, the
\* validation of the stored identifier, the history scan) no scheduled
\* reconciliation cycle is between its start and its end.
C20_BootstrapBeforeCycles ==
  bpc # "idle" => \A s \in Sched : pc[s] \notin InFlight

\* ---------------------------------------------------------- commands only
\* The slash commands one after another, with no scheduler loop running,
\* while the sheet changes and messages are deleted.
CmdNext ==
  \/ \E a \in Admin : RosterCmd(a)
  \/ \E a \in Admin, reason \in Reasons : CancelCmd(a, reason)
  \/ \E a \in Admin : UncancelCmd(a)
  \/ \E a \in Admin : AdminBegin(a)
  \/ \E a \in Admin : AdminAbort(a)
  \/ \E a \in Admin, res \in EditResults : EditReply(a, res)
  \/ \E a \in Admin, res \in SendResults : SendReply(a, res)
  \/ SheetEdit
  \/ \E i \in 1..MaxMsgs : DeleteMsg(i)

CmdSpec == Init /\ [][CmdNext]_vars

\* The flag and reason persisted for the target week.
PersistedCancelled == cancelFile.wk = week /\ cancelFile.is_cancelled

HasBanner(text, reason) ==
  /\ StartsWith(text, BannerPrefix)
  /\ Len(text) >= 2 /\ text[2] = <<"Reason: ", reason>>

\* C21: the text a reconciliation renders starts with the cancellation
\* banner, with the persisted reason, exactly when the flag persisted for
\* the target week is cancelled; and so does the text of a reconciliation
\* that returns edited, against the flag persisted when it returns.
C21_RendersPersistedState ==
  /\ [][\A p \in Procs :
          (pc[p] \notin InFlight /\ pc'[p] \in InFlight) =>
            IF PersistedCancelled'
            THEN HasBanner(newc'[p], cancelFile'.reason)
            ELSE ~StartsWith(newc'[p], BannerPrefix)]_vars
  /\ []((last.op = "cycle" /\ last.status = "edited") =>
          IF PersistedCancelled
          THEN HasBanner(last.text, cancelFile.reason) /\ HasBanner(cache, cancelFile.reason)
          ELSE ~StartsWith(last.text, BannerPrefix) /\ ~StartsWith(cache, BannerPrefix))

\* No reconciliation is between its start and its end and bootstrap is not
\* in progress.
Quiescent == bpc = "idle" /\ \A p \in Procs : pc[p] \notin InFlight

\* C22: when nothing is in progress and the persisted identifier names a
\* message that exists, the persisted last-rendered text is the content of
\* that message.
C22_CacheIsContent ==
  (Quiescent /\ Live(chan, msgId)) => cache = chan[msgId].content

\* The text the reconciler would render now from the sheet, the persisted
\* cancellation state and the target week.
CurrentRendering ==
  Render(sheet, PersistedCancelled, cancelFile.reason, week)
Converged ==
  \E i \in 1..Len(chan) :
    chan[i].live /\ chan[i].author = "bot" /\ chan[i].content = CurrentRendering
\* A step by which the data or the channel changes from outside.
OutsideChange == SheetEdit \/ \E i \in 1..MaxMsgs : DeleteMsg(i)
\* A cycle has just ended on a failed call.
CycleFailed ==
  last.op = "cycle" /\ last.status \in {"error", "rate_limited", "raised"}

\* C23: once the scheduler loop runs, either the data and the channel keep
\* being changed from outside, or calls keep failing, or from some point on
\* the channel holds a roster message with the current rendering.
C23_Converges ==
  \/ [](\A s \in Sched : pc[s] = "off")
  \/ []<><<OutsideChange>>_vars
  \/ []<>CycleFailed
  \/ <>[]Converged

====
